---- MODULE Spec2Model ----
(***************************************************************************)
(* The RTMP service detector of snort3's appid inspector                   *)
(* (src/network_inspectors/appid/service_plugins/service_rtmp.cc):         *)
(* the two-sided handshake tracker driven by rtmp_validate, and the        *)
(* chunk / AMF0 readers used to extract the client's connect command.      *)
(*                                                                         *)
(* Conventions.  A payload (args->data, args->size) is a record            *)
(*   [head, fb, fill, tail]  standing for the bytes  head, then `fill`     *)
(* copies of the byte fb, then tail.  A cursor into it is (off, size):     *)
(* off is the distance of the C pointer `data` from the start of the       *)
(* payload and size the C variable `size`; data[i] is Byte(p, off + i).    *)
(* A reassembled message body is a plain sequence b with cursor (d, size): *)
(* data[i] is b[d + i + 1].  <<>> stands for nullptr: every string the     *)
(* code allocates holds at least one byte and its terminator.              *)
(***************************************************************************)
EXTENDS Integers, Sequences, FiniteSets, TLC

\* ------------------------------------------------------------- constants
RTMP_VER_3 == 3
RTMP_HANDSHAKE1_SIZE == 1536
RTMP_HANDSHAKE2_SIZE == 1536
RTMP_CHUNK_SIZE == 128
RTMP_AMF0_COMMAND_MESSAGE_ID == 20
RTMP_COMMAND_TYPE_CONNECT == <<99, 111, 110, 110, 101, 99, 116>>
RTMP_PROPERTY_KEY_SWFURL == <<115, 119, 102, 85, 114, 108>>
RTMP_PROPERTY_KEY_SWFURL_LEN == 6
RTMP_PROPERTY_KEY_PAGEURL == <<112, 97, 103, 101, 85, 114, 108>>
RTMP_PROPERTY_KEY_PAGEURL_LEN == 7
AMF0_TYPE_NUMBER == 0
AMF0_TYPE_BOOLEAN == 1
AMF0_TYPE_STRING == 2
AMF0_TYPE_OBJECT == 3
AMF0_TYPE_OBJECT_END == 9

\* enum RTMPState
RTMP_STATE_INIT == 0
RTMP_STATE_SENT_HANDSHAKE0 == 1
RTMP_STATE_SENDING_HANDSHAKE1 == 2
RTMP_STATE_SENT_HANDSHAKE1 == 3
RTMP_STATE_SENDING_HANDSHAKE2 == 4
RTMP_STATE_SENT_HANDSHAKE2 == 5
RTMP_STATE_DONE == 6

APP_ID_FROM_INITIATOR == "initiator"
APP_ID_FROM_RESPONDER == "responder"
SERVICE_INPROCESS == "inprocess"
SERVICE_NOMATCH == "nomatch"
SERVICE_SUCCESS == "success"

Min(a, b) == IF a < b THEN a ELSE b

\* The element of a one-element set: The({ e(x) : x \in {v} }) is e(v), with v
\* computed once.
The(S) == CHOOSE v \in S : TRUE

\* ---------------------------------------------------------------- payloads
Size(p) == Len(p.head) + p.fill + Len(p.tail)

\* data[i] of the payload, 0 <= i < Size(p)
Byte(p, i) ==
    LET h == Len(p.head) IN
    IF i < h THEN p.head[i + 1]
    ELSE IF i < h + p.fill THEN p.fb
    ELSE p.tail[i - h - p.fill + 1]

\* ------------------------------------------------- chunk basic header
BasicFail(oob) ==
    [ok |-> FALSE, off |-> 0, size |-> 0, format |-> 0, id |-> 0, oob |-> oob]

\* The 3-byte form reads data[1] and data[2] before it compares size with 3:
\* oob records that the read went past the bytes of the payload.
parse_rtmp_chunk_basic_header(p, off, size) ==
    IF size < 1 THEN BasicFail(FALSE)
    ELSE
        LET b0 == Byte(p, off)
            format == b0 \div 64
            raw == b0 % 64
        IN  IF raw = 0
            THEN IF size < 2 THEN BasicFail(FALSE)
                 ELSE [ok |-> TRUE, off |-> off + 2, size |-> size - 2,
                       format |-> format, id |-> Byte(p, off + 1) + 64, oob |-> FALSE]
            ELSE IF raw = 1
            THEN IF size < 3 THEN BasicFail(TRUE)
                 ELSE [ok |-> TRUE, off |-> off + 3, size |-> size - 3,
                       format |-> format,
                       id |-> Byte(p, off + 2) * 256 + Byte(p, off + 1) + 64,
                       oob |-> FALSE]
            ELSE [ok |-> TRUE, off |-> off + 1, size |-> size - 1,
                  format |-> format, id |-> raw, oob |-> FALSE]

\* ------------------------------------------------ chunk message header
HeaderFail(oob) ==
    [ok |-> FALSE, off |-> 0, size |-> 0, id |-> 0, msg_len |-> 0, msg_type |-> 0,
     oob |-> oob]

\* lines 191-213, bh being what the basic header reader returned
MessageHeaderAfter(p, bh) ==
    IF ~bh.ok THEN HeaderFail(bh.oob)
    ELSE IF bh.format \notin {0, 1} THEN HeaderFail(FALSE)
    ELSE
        LET hdr_len == IF bh.format = 0 THEN 11 ELSE 7 IN
        IF bh.size < hdr_len THEN HeaderFail(FALSE)
        ELSE [ok |-> TRUE, off |-> bh.off + hdr_len, size |-> bh.size - hdr_len,
              id |-> bh.id,
              msg_len |-> Byte(p, bh.off + 3) * 65536 + Byte(p, bh.off + 4) * 256
                          + Byte(p, bh.off + 5),
              msg_type |-> Byte(p, bh.off + 6),
              oob |-> FALSE]

parse_rtmp_message_header(p, off, size) ==
    MessageHeaderAfter(p, parse_rtmp_chunk_basic_header(p, off, size))

\* --------------------------------------------------- message reassembly
UnchunkFail(oob) == [ok |-> FALSE, off |-> 0, size |-> 0, body |-> <<>>, oob |-> oob]

ContinuationOk_AnyId(bh, chunk_stream_id) == bh.format = 3

\* lines 243-248: the header between two chunks of a message
ContinuationOk(bh, chunk_stream_id) ==
    bh.format = 3 /\ bh.id = chunk_stream_id

\* One pass of the while loop per call; body is what memcpy has written so far.
RECURSIVE unchunk_rtmp_message_body(_, _, _, _, _, _)
unchunk_rtmp_message_body(p, off, size, chunk_stream_id, message_length, body) ==
    IF message_length = 0
    THEN [ok |-> TRUE, off |-> off, size |-> size, body |-> body, oob |-> FALSE]
    ELSE
        LET chunk_len == IF message_length > RTMP_CHUNK_SIZE
                         THEN RTMP_CHUNK_SIZE ELSE message_length
        IN  IF size < chunk_len THEN UnchunkFail(FALSE)
            ELSE
                LET body2 == body \o [i \in 1..chunk_len |-> Byte(p, off + i - 1)]
                    off2 == off + chunk_len
                    size2 == size - chunk_len
                    left2 == message_length - chunk_len
                IN  IF left2 > 0
                    THEN The({ IF ~bh.ok THEN UnchunkFail(bh.oob)
                               ELSE IF ~ContinuationOk(bh, chunk_stream_id)
                               THEN UnchunkFail(FALSE)
                               ELSE unchunk_rtmp_message_body(p, bh.off, bh.size,
                                        chunk_stream_id, left2, body2)
                               : bh \in {parse_rtmp_chunk_basic_header(p, off2, size2)} })
                    ELSE [ok |-> TRUE, off |-> off2, size |-> size2, body |-> body2,
                          oob |-> FALSE]

\* ------------------------------------------------------------ AMF0 values
\* strncmp(data, lit, n) == 0, lit a NUL-terminated literal: at most n
\* characters are compared and the comparison stops after a NUL in both.
LitAt(lit, i) == IF i < Len(lit) THEN lit[i + 1] ELSE 0

RECURSIVE StrncmpFrom(_, _, _, _, _)
StrncmpFrom(b, d, lit, n, i) ==
    IF i = n THEN TRUE
    ELSE IF b[d + i + 1] # LitAt(lit, i) THEN FALSE
    ELSE IF b[d + i + 1] = 0 THEN TRUE
    ELSE StrncmpFrom(b, d, lit, n, i + 1)

strncmp_eq(b, d, lit, n) == StrncmpFrom(b, d, lit, n, 0)

\* The returned string is the field_len bytes copied and the terminator.
duplicate_string(b, d, size) ==
    LET null == [str |-> <<>>, d |-> d, size |-> size] IN
    IF size < 1 + 2 THEN null
    ELSE IF b[d + 1] # AMF0_TYPE_STRING THEN null
    ELSE
        LET field_len == b[d + 2] * 256 + b[d + 3] IN
        IF field_len = 0 THEN null
        ELSE IF size - 3 < field_len THEN null
        ELSE [str |-> SubSeq(b, d + 4, d + 3 + field_len) \o <<0>>,
              d |-> d + 3 + field_len, size |-> size - 3 - field_len]

skip_property_value(b, d, size) ==
    LET bad == [ok |-> FALSE, d |-> d, size |-> size] IN
    IF size < 1 THEN bad
    ELSE
        LET type == b[d + 1]
            d1 == d + 1
            s1 == size - 1
        IN  IF type = AMF0_TYPE_NUMBER
            THEN IF s1 < 8 THEN bad ELSE [ok |-> TRUE, d |-> d1 + 8, size |-> s1 - 8]
            ELSE IF type = AMF0_TYPE_BOOLEAN
            THEN IF s1 < 1 THEN bad ELSE [ok |-> TRUE, d |-> d1 + 1, size |-> s1 - 1]
            ELSE IF type = AMF0_TYPE_STRING
            THEN IF s1 < 2 THEN bad
                 ELSE LET field_len == b[d1 + 1] * 256 + b[d1 + 2] IN
                      IF s1 - 2 < field_len THEN bad
                      ELSE [ok |-> TRUE, d |-> d1 + 2 + field_len,
                            size |-> s1 - 2 - field_len]
            ELSE bad

\* ------------------------------------------------ connect-command extractor
\* line 375: the command name is compared over field_len characters
IsConnectCommand(b, d, field_len) ==
    strncmp_eq(b, d, RTMP_COMMAND_TYPE_CONNECT, field_len)

WantSwfUrl_Again(swfUrl, b, d, field_len) ==
    /\ field_len = RTMP_PROPERTY_KEY_SWFURL_LEN
    /\ strncmp_eq(b, d, RTMP_PROPERTY_KEY_SWFURL, RTMP_PROPERTY_KEY_SWFURL_LEN)

\* lines 409-412 and 420-423: is this key one the detector still wants?
WantSwfUrl(swfUrl, b, d, field_len) ==
    /\ swfUrl = <<>>
    /\ field_len = RTMP_PROPERTY_KEY_SWFURL_LEN
    /\ strncmp_eq(b, d, RTMP_PROPERTY_KEY_SWFURL, RTMP_PROPERTY_KEY_SWFURL_LEN)

WantPageUrl(pageUrl, b, d, field_len) ==
    /\ pageUrl = <<>>
    /\ field_len = RTMP_PROPERTY_KEY_PAGEURL_LEN
    /\ strncmp_eq(b, d, RTMP_PROPERTY_KEY_PAGEURL, RTMP_PROPERTY_KEY_PAGEURL_LEN)

IsObjectEnd_Any(b, d) == b[d + 3] = b[d + 3]

\* line 399: a zero-length key is the end of the object if the tag after it
\* is the object-end tag
IsObjectEnd(b, d) == b[d + 3] = AMF0_TYPE_OBJECT_END

\* The do ... while (size > 0) loop over the command object, one property per
\* call.  swfUrl and pageUrl are ss->swfUrl and ss->pageUrl; they keep what
\* was captured also when the loop fails (rtmp_validate releases them).
RECURSIVE PropertyLoop(_, _, _, _, _)
PropertyLoop(b, d, size, swfUrl, pageUrl) ==
    LET fail == [ok |-> FALSE, swfUrl |-> swfUrl, pageUrl |-> pageUrl]
        done == [ok |-> TRUE, swfUrl |-> swfUrl, pageUrl |-> pageUrl]
    IN
    IF size < 3 THEN fail
    ELSE
        LET field_len == b[d + 1] * 256 + b[d + 2]
            d1 == d + 2
            s1 == size - 2
        IN
        IF field_len = 0
        THEN IF IsObjectEnd(b, d) THEN done ELSE fail
        ELSE IF s1 < field_len THEN fail
        ELSE IF WantSwfUrl(swfUrl, b, d1, field_len)
        THEN The({ IF ds.str = <<>> THEN fail
                   ELSE IF ds.size > 0
                        THEN PropertyLoop(b, ds.d, ds.size, ds.str, pageUrl)
                        ELSE [ok |-> TRUE, swfUrl |-> ds.str, pageUrl |-> pageUrl]
                   : ds \in {duplicate_string(b, d1 + field_len, s1 - field_len)} })
        ELSE IF WantPageUrl(pageUrl, b, d1, field_len)
        THEN The({ IF ds.str = <<>> THEN fail
                   ELSE IF ds.size > 0
                        THEN PropertyLoop(b, ds.d, ds.size, swfUrl, ds.str)
                        ELSE [ok |-> TRUE, swfUrl |-> swfUrl, pageUrl |-> ds.str]
                   : ds \in {duplicate_string(b, d1 + field_len, s1 - field_len)} })
        ELSE The({ IF ~sk.ok THEN fail
                   ELSE IF sk.size > 0
                        THEN PropertyLoop(b, sk.d, sk.size, swfUrl, pageUrl)
                        ELSE done
                   : sk \in {skip_property_value(b, d1 + field_len, s1 - field_len)} })

\* lines 362-439: the checks on the reassembled body (data = body, size = msg_len)
ParseBody(b, swfUrl, pageUrl) ==
    LET fail == [ok |-> FALSE, swfUrl |-> swfUrl, pageUrl |-> pageUrl]
        size == Len(b)
    IN
    IF size < 1 + 2 THEN fail
    ELSE IF b[1] # AMF0_TYPE_STRING THEN fail
    ELSE
        LET field_len == b[2] * 256 + b[3]
            s1 == size - 3
        IN
        IF field_len = 0 THEN fail
        ELSE IF s1 < field_len THEN fail
        ELSE IF ~IsConnectCommand(b, 3, field_len) THEN fail
        ELSE
            LET d2 == 3 + field_len
                s2 == s1 - field_len
            IN
            IF s2 < 1 + 8 THEN fail
            ELSE IF b[d2 + 1] # AMF0_TYPE_NUMBER THEN fail
            ELSE IF s2 - 9 < 1 THEN fail
            ELSE IF b[d2 + 10] # AMF0_TYPE_OBJECT THEN fail
            ELSE PropertyLoop(b, d2 + 10, s2 - 10, swfUrl, pageUrl)

\* lines 359-448, un being what the reassembly returned
MessageAfterUnchunk(off, size, swfUrl, pageUrl, un) ==
    IF ~un.ok
    THEN [ok |-> FALSE, off |-> off, size |-> size,
          swfUrl |-> swfUrl, pageUrl |-> pageUrl, oob |-> un.oob]
    ELSE The({ [ok |-> pb.ok, off |-> un.off, size |-> un.size,
                swfUrl |-> pb.swfUrl, pageUrl |-> pb.pageUrl, oob |-> FALSE]
               : pb \in {ParseBody(un.body, swfUrl, pageUrl)} })

\* lines 351-358, mh being what the message header reader returned
MessageAfterHeader(p, off, size, swfUrl, pageUrl, mh) ==
    IF ~mh.ok
    THEN [ok |-> FALSE, off |-> off, size |-> size,
          swfUrl |-> swfUrl, pageUrl |-> pageUrl, oob |-> mh.oob]
    ELSE IF mh.msg_type # RTMP_AMF0_COMMAND_MESSAGE_ID
    THEN [ok |-> FALSE, off |-> off, size |-> size,
          swfUrl |-> swfUrl, pageUrl |-> pageUrl, oob |-> FALSE]
    ELSE MessageAfterUnchunk(off, size, swfUrl, pageUrl,
             unchunk_rtmp_message_body(p, mh.off, mh.size, mh.id, mh.msg_len, <<>>))

\* off and size are *data_inout and *size_inout as the function leaves them:
\* they are written once the body has been reassembled, not before.
parse_rtmp_message(p, off, size, swfUrl, pageUrl) ==
    MessageAfterHeader(p, off, size, swfUrl, pageUrl,
                       parse_rtmp_message_header(p, off, size))

\* ------------------------------------------------------- rtmp_validate
\* lines 494-506 (and 521-533, 590-602, 617-630): one delivery into a
\* 1536-byte block with `left` bytes still wanted.  used is what the block
\* takes of the delivery; bytes_left is not written when the block completes.
ConsumeBlock_OffByOne(left, size) ==
    IF size <= left
    THEN [done |-> FALSE, left |-> left - size, used |-> size]
    ELSE [done |-> TRUE, left |-> left, used |-> left]

ConsumeBlock_NoCarry(left, size) ==
    IF size < left
    THEN [done |-> FALSE, left |-> left, used |-> size]
    ELSE [done |-> TRUE, left |-> left, used |-> left]

ConsumeBlock(left, size) ==
    IF size < left
    THEN [done |-> FALSE, left |-> left - size, used |-> size]
    ELSE [done |-> TRUE, left |-> left, used |-> left]

VersionOk_Any(b) == b = b

\* line 478 / 574: C0 and S0 carry the version
VersionOk(b) == b = RTMP_VER_3

ClientMayStartC2_Skip(ss) == ss.server_state >= RTMP_STATE_INIT

\* line 511: client can't start sending C2 until it has received S1
ClientMayStartC2(ss) == ~(ss.server_state < RTMP_STATE_SENT_HANDSHAKE1)

\* line 569: client must initiate
ServerMayStartS0(ss) == ~(ss.client_state < RTMP_STATE_SENT_HANDSHAKE0)

ServerMayStartS2_Sent0(ss) == ~(ss.client_state < RTMP_STATE_SENT_HANDSHAKE0)

\* line 607: server can't start sending S2 until it has received C1
ServerMayStartS2(ss) == ~(ss.client_state < RTMP_STATE_SENT_HANDSHAKE1)

\* What a loop hands back: the flow data, whether it left by goto fail, and
\* the record of the run: trail lists (state, size) at every pass of the
\* switch, cgot / sgot count the bytes the current C1/C2 (S1/S2) block has
\* taken since it was started, parsed tells that parse_rtmp_message ran and
\* cut is the cursor it left (bytes of the payload it used up to), from pstart.
LoopFail(ss, acc) == [ss |-> ss, failed |-> TRUE, acc |-> acc]

ClientAfterMessage_ServerToo(ss, acc, pm) ==
    [ss |-> [ss EXCEPT !.swfUrl = pm.swfUrl, !.pageUrl = pm.pageUrl,
                       !.client_state = IF pm.ok THEN RTMP_STATE_DONE ELSE @,
                       !.server_state = IF pm.ok THEN RTMP_STATE_DONE ELSE @],
     failed |-> ~pm.ok,
     acc |-> [acc EXCEPT !.oob = pm.oob, !.cut = pm.off]]

\* lines 538-546, pm being what parse_rtmp_message returned: the strings it
\* captured stay in the flow data whether it succeeded or not, and a success
\* ends the loop (size = 0) with the client Done.
ClientAfterMessage(ss, acc, pm) ==
    [ss |-> [ss EXCEPT !.swfUrl = pm.swfUrl, !.pageUrl = pm.pageUrl,
                       !.client_state = IF pm.ok THEN RTMP_STATE_DONE ELSE @],
     failed |-> ~pm.ok,
     acc |-> [acc EXCEPT !.oob = pm.oob, !.cut = pm.off]]

\* lines 472-557, one pass of the while loop per call
RECURSIVE ClientLoop(_, _, _, _, _)
ClientLoop(ss, p, off, size, acc) ==
    IF size = 0 THEN [ss |-> ss, failed |-> FALSE, acc |-> acc]
    ELSE
    LET st == ss.client_state
        acc1 == [acc EXCEPT !.trail = Append(@, [state |-> st, size |-> size])]
    IN
    IF st = RTMP_STATE_INIT
    THEN IF ~VersionOk(Byte(p, off)) THEN LoopFail(ss, acc1)
         ELSE ClientLoop([ss EXCEPT !.client_state = RTMP_STATE_SENT_HANDSHAKE0],
                         p, off + 1, size - 1, acc1)
    ELSE IF st \in {RTMP_STATE_SENT_HANDSHAKE0, RTMP_STATE_SENDING_HANDSHAKE1}
    THEN LET fresh == st = RTMP_STATE_SENT_HANDSHAKE0
             cb == ConsumeBlock(IF fresh THEN RTMP_HANDSHAKE1_SIZE
                                ELSE ss.client_bytes_left, size)
         IN  ClientLoop([ss EXCEPT
                           !.client_state = IF cb.done THEN RTMP_STATE_SENT_HANDSHAKE1
                                            ELSE RTMP_STATE_SENDING_HANDSHAKE1,
                           !.client_bytes_left = cb.left],
                        p, off + cb.used, size - cb.used,
                        [acc1 EXCEPT !.cgot = (IF fresh THEN 0 ELSE @) + cb.used])
    ELSE IF st \in {RTMP_STATE_SENT_HANDSHAKE1, RTMP_STATE_SENDING_HANDSHAKE2}
    THEN LET fresh == st = RTMP_STATE_SENT_HANDSHAKE1
             cb == ConsumeBlock(IF fresh THEN RTMP_HANDSHAKE2_SIZE
                                ELSE ss.client_bytes_left, size)
         IN  IF fresh /\ ~ClientMayStartC2(ss) THEN LoopFail(ss, acc1)
             ELSE ClientLoop([ss EXCEPT
                           !.client_state = IF cb.done THEN RTMP_STATE_SENT_HANDSHAKE2
                                            ELSE RTMP_STATE_SENDING_HANDSHAKE2,
                           !.client_bytes_left = cb.left],
                        p, off + cb.used, size - cb.used,
                        [acc1 EXCEPT !.cgot = (IF fresh THEN 0 ELSE @) + cb.used])
    ELSE IF st = RTMP_STATE_SENT_HANDSHAKE2
    THEN ClientAfterMessage(ss, [acc1 EXCEPT !.parsed = TRUE, !.pstart = off],
                            parse_rtmp_message(p, off, size, ss.swfUrl, ss.pageUrl))
    ELSE \* RTMP_STATE_DONE: blindly consume all data
         ClientLoop(ss, p, off + size, 0, acc1)

ServerAfterS2_Rest == RTMP_STATE_SENT_HANDSHAKE2

\* lines 626-635: the server's state once the last byte of S2 is taken; the
\* SENDING_HANDSHAKE2 case falls through SENT_HANDSHAKE2 into DONE
ServerAfterS2 == RTMP_STATE_DONE

\* lines 563-646
RECURSIVE ServerLoop(_, _, _, _, _)
ServerLoop(ss, p, off, size, acc) ==
    IF size = 0 THEN [ss |-> ss, failed |-> FALSE, acc |-> acc]
    ELSE
    LET st == ss.server_state
        acc1 == [acc EXCEPT !.trail = Append(@, [state |-> st, size |-> size])]
    IN
    IF st = RTMP_STATE_INIT
    THEN IF ~ServerMayStartS0(ss) THEN LoopFail(ss, acc1)
         ELSE IF ~VersionOk(Byte(p, off)) THEN LoopFail(ss, acc1)
         ELSE ServerLoop([ss EXCEPT !.server_state = RTMP_STATE_SENT_HANDSHAKE0],
                         p, off + 1, size - 1, acc1)
    ELSE IF st \in {RTMP_STATE_SENT_HANDSHAKE0, RTMP_STATE_SENDING_HANDSHAKE1}
    THEN LET fresh == st = RTMP_STATE_SENT_HANDSHAKE0
             cb == ConsumeBlock(IF fresh THEN RTMP_HANDSHAKE1_SIZE
                                ELSE ss.server_bytes_left, size)
         IN  ServerLoop([ss EXCEPT
                           !.server_state = IF cb.done THEN RTMP_STATE_SENT_HANDSHAKE1
                                            ELSE RTMP_STATE_SENDING_HANDSHAKE1,
                           !.server_bytes_left = cb.left],
                        p, off + cb.used, size - cb.used,
                        [acc1 EXCEPT !.sgot = (IF fresh THEN 0 ELSE @) + cb.used])
    ELSE IF st \in {RTMP_STATE_SENT_HANDSHAKE1, RTMP_STATE_SENDING_HANDSHAKE2}
    THEN LET fresh == st = RTMP_STATE_SENT_HANDSHAKE1
             cb == ConsumeBlock(IF fresh THEN RTMP_HANDSHAKE2_SIZE
                                ELSE ss.server_bytes_left, size)
         IN  IF fresh /\ ~ServerMayStartS2(ss) THEN LoopFail(ss, acc1)
             ELSE IF ~cb.done
             THEN ServerLoop([ss EXCEPT
                                !.server_state = RTMP_STATE_SENDING_HANDSHAKE2,
                                !.server_bytes_left = cb.left],
                             p, off + cb.used, size - cb.used,
                             [acc1 EXCEPT !.sgot = (IF fresh THEN 0 ELSE @) + cb.used])
             ELSE \* falls through SENT_HANDSHAKE2 into DONE: size = 0
                  ServerLoop([ss EXCEPT !.server_state = ServerAfterS2,
                                        !.server_bytes_left = cb.left],
                             p, off + size, 0,
                             [acc1 EXCEPT !.sgot = (IF fresh THEN 0 ELSE @) + cb.used])
    ELSE \* RTMP_STATE_SENT_HANDSHAKE2 or RTMP_STATE_DONE
         ServerLoop([ss EXCEPT !.server_state = RTMP_STATE_DONE],
                    p, off + size, 0, acc1)

BothDone_ClientOnly(ss) == ss.client_state = RTMP_STATE_DONE

BothDone_Either(ss) ==
    ss.client_state = RTMP_STATE_DONE \/ ss.server_state = RTMP_STATE_DONE

\* lines 650-651
BothDone(ss) ==
    ss.client_state = RTMP_STATE_DONE /\ ss.server_state = RTMP_STATE_DONE

TooLong_Beyond(session_packet_count, rtmp_max_packets) ==
    session_packet_count > rtmp_max_packets

\* line 657
TooLong(session_packet_count, rtmp_max_packets) ==
    session_packet_count >= rtmp_max_packets

\* Which of the two strings are held (non-null)
Held(ss) == (IF ss.swfUrl # <<>> THEN {"swfUrl"} ELSE {})
            \cup (IF ss.pageUrl # <<>> THEN {"pageUrl"} ELSE {})

FailLabel_Restart(ss) ==
    [ss EXCEPT !.swfUrl = <<>>, !.pageUrl = <<>>,
               !.client_state = RTMP_STATE_INIT, !.server_state = RTMP_STATE_INIT]

FailLabel_KeepPage(ss) == [ss EXCEPT !.swfUrl = <<>>]

\* lines 666-669: the fail label releases both strings
FailLabel(ss) == [ss EXCEPT !.swfUrl = <<>>, !.pageUrl = <<>>]

SuccessSession_Overwrite(ss, hs, referred_appId_disabled) ==
    LET hs1 == IF ss.swfUrl # <<>>
               THEN [hs EXCEPT !.present = TRUE, !.url = ss.swfUrl]
               ELSE hs
    IN  IF ss.pageUrl # <<>>
        THEN [hs1 EXCEPT !.present = TRUE,
                         !.referer = IF ~referred_appId_disabled /\ hs1.referer = <<>>
                                     THEN ss.pageUrl ELSE @]
        ELSE hs1

SuccessSession_UrlOnly(ss, hs, referred_appId_disabled) ==
    IF ss.swfUrl # <<>>
    THEN [hs EXCEPT !.present = TRUE, !.url = IF hs.url = <<>> THEN ss.swfUrl ELSE @]
    ELSE hs

\* lines 675-702: the success label hands the strings to the http session
SuccessSession(ss, hs, referred_appId_disabled) ==
    LET hs1 == IF ss.swfUrl # <<>>
               THEN [hs EXCEPT !.present = TRUE,
                               !.url = IF hs.url = <<>> THEN ss.swfUrl ELSE @]
               ELSE hs
    IN  IF ss.pageUrl # <<>>
        THEN [hs1 EXCEPT !.present = TRUE,
                         !.referer = IF ~referred_appId_disabled /\ hs1.referer = <<>>
                                     THEN ss.pageUrl ELSE @]
        ELSE hs1

SuccessLabel_Keep(ss) == ss

\* lines 675-702: both strings are null once the success label is passed
SuccessLabel(ss) == [ss EXCEPT !.swfUrl = <<>>, !.pageUrl = <<>>]

NoRun(cgot, sgot) ==
    [trail |-> <<>>, cgot |-> cgot, sgot |-> sgot, parsed |-> FALSE, oob |-> FALSE,
     pstart |-> 0, cut |-> 0]

\* lines 649-706, run being what the direction's loop returned
Conclude(run, env) ==
    IF run.failed
    THEN [ss |-> FailLabel(run.ss), hs |-> env.hs, outcome |-> SERVICE_NOMATCH,
          acc |-> run.acc, freed |-> Held(run.ss)]
    ELSE IF BothDone(run.ss)
    THEN [ss |-> SuccessLabel(run.ss),
          hs |-> SuccessSession(run.ss, env.hs, env.disabled),
          outcome |-> SERVICE_SUCCESS, acc |-> run.acc, freed |-> Held(run.ss)]
    ELSE IF TooLong(env.count, env.max)
    THEN [ss |-> FailLabel(run.ss), hs |-> env.hs, outcome |-> SERVICE_NOMATCH,
          acc |-> run.acc, freed |-> Held(run.ss)]
    ELSE [ss |-> run.ss, hs |-> env.hs, outcome |-> SERVICE_INPROCESS,
          acc |-> run.acc, freed |-> {}]

\* One call of rtmp_validate on flow data ss with payload p in direction dir.
\* env = [count, max, disabled, hs, cgot, sgot]: the session's packet count,
\* the two configuration values, the http session and the block counters.
rtmp_validate(ss, dir, p, env) ==
    IF Size(p) = 0
    THEN [ss |-> ss, hs |-> env.hs, outcome |-> SERVICE_INPROCESS,
          acc |-> NoRun(env.cgot, env.sgot), freed |-> {}]
    ELSE IF dir = APP_ID_FROM_INITIATOR
    THEN Conclude(ClientLoop(ss, p, 0, Size(p), NoRun(env.cgot, env.sgot)), env)
    ELSE Conclude(ServerLoop(ss, p, 0, Size(p), NoRun(env.cgot, env.sgot)), env)

\* ------------------------------------------------------------ the inputs
\* Encoders of the wire format, used to build the payloads the host delivers.
U16(n) == <<n \div 256, n % 256>>
U24(n) == <<n \div 65536, (n \div 256) % 256, n % 256>>
AmfString(s) == <<AMF0_TYPE_STRING>> \o U16(Len(s)) \o s
AmfNumber == <<AMF0_TYPE_NUMBER, 64, 0, 0, 0, 0, 0, 0, 0>>
AmfBoolean == <<AMF0_TYPE_BOOLEAN, 1>>
Prop(key, value) == U16(Len(key)) \o key \o value
ObjectEnd == <<0, 0, AMF0_TYPE_OBJECT_END>>
CommandBody(name, props) ==
    AmfString(name) \o AmfNumber \o <<AMF0_TYPE_OBJECT>> \o props

\* form 1, 2, 3: the 1-, 2- and 3-byte chunk basic header
BasicHeader(form, fmt, csid) ==
    IF form = 1 THEN <<fmt * 64 + csid>>
    ELSE IF form = 2 THEN <<fmt * 64, csid - 64>>
    ELSE <<fmt * 64 + 1, (csid - 64) % 256, (csid - 64) \div 256>>

MessageHeader(fmt, len, type) ==
    IF fmt = 0 THEN <<0, 0, 0>> \o U24(len) \o <<type>> \o <<0, 0, 0, 0>>
    ELSE <<0, 0, 0>> \o U24(len) \o <<type>>

RECURSIVE Chunks(_, _)
Chunks(body, cont) ==
    IF Len(body) <= RTMP_CHUNK_SIZE THEN body
    ELSE SubSeq(body, 1, RTMP_CHUNK_SIZE) \o cont
         \o Chunks(SubSeq(body, RTMP_CHUNK_SIZE + 1, Len(body)), cont)

Message(form, fmt, csid, type, body) ==
    BasicHeader(form, fmt, csid) \o MessageHeader(fmt, Len(body), type)
    \o Chunks(body, BasicHeader(form, 3, csid))

Connect(form, fmt, csid, name, props) ==
    Message(form, fmt, csid, RTMP_AMF0_COMMAND_MESSAGE_ID, CommandBody(name, props))

\* "http://x/y.swf", "http://x/", "b.swf", "pb", "app", "play"
SwfA == <<104, 116, 116, 112, 58, 47, 47, 120, 47, 121, 46, 115, 119, 102>>
PageA == <<104, 116, 116, 112, 58, 47, 47, 120, 47>>
SwfB == <<98, 46, 115, 119, 102>>
PageB == <<112, 98>>
KeyApp == <<97, 112, 112>>
NamePlay == <<112, 108, 97, 121>>
LongStr == [i \in 1..100 |-> 97]
OtherUrl == <<111>>

PSwf(v) == Prop(RTMP_PROPERTY_KEY_SWFURL, AmfString(v))
PPage(v) == Prop(RTMP_PROPERTY_KEY_PAGEURL, AmfString(v))
PApp == Prop(KeyApp, AmfString(LongStr))
PFlag == Prop(KeyApp, AmfBoolean)
PNum == Prop(KeyApp, AmfNumber)

\* Well-formed chunked connect commands carrying swfUrl and pageUrl
MsgBoth == Connect(1, 0, 3, RTMP_COMMAND_TYPE_CONNECT,
                   PApp \o PSwf(SwfA) \o PNum \o PPage(PageA) \o PFlag \o ObjectEnd)
MsgBoth3 == Connect(3, 1, 400, RTMP_COMMAND_TYPE_CONNECT,
                    PPage(PageB) \o PApp \o PSwf(SwfB) \o ObjectEnd)
WellFormedBoth == {MsgBoth, MsgBoth3}

\* Command names that are not "connect"
OtherNames ==
    { NamePlay,
      SubSeq(RTMP_COMMAND_TYPE_CONNECT, 1, 3),
      SubSeq(RTMP_COMMAND_TYPE_CONNECT, 1, 1),
      SubSeq(RTMP_COMMAND_TYPE_CONNECT, 1, 6),
      RTMP_COMMAND_TYPE_CONNECT \o <<120>>,
      RTMP_COMMAND_TYPE_CONNECT \o <<0, 120>>,
      RTMP_COMMAND_TYPE_CONNECT \o <<0>>,
      <<67>> \o SubSeq(RTMP_COMMAND_TYPE_CONNECT, 2, 7),
      SubSeq(RTMP_COMMAND_TYPE_CONNECT, 2, 7),
      <<99, 111, 0>>,
      <<>> }

NamedMsgs == { Connect(1, 0, 3, n, PSwf(SwfA) \o PPage(PageA) \o ObjectEnd) : n \in OtherNames }

\* Other shapes: no end marker, a bad end marker, a stray byte, a wrong
\* message type, bad continuation headers, truncated headers, trailing bytes
OddMsgs ==
    { Connect(1, 0, 3, RTMP_COMMAND_TYPE_CONNECT, PSwf(SwfA)),
      Connect(1, 0, 3, RTMP_COMMAND_TYPE_CONNECT, <<>>),
      Connect(1, 0, 3, RTMP_COMMAND_TYPE_CONNECT, PSwf(SwfA) \o <<0, 0, 5>>),
      Connect(1, 0, 3, RTMP_COMMAND_TYPE_CONNECT, PSwf(SwfA) \o <<0>>),
      Connect(1, 2, 3, RTMP_COMMAND_TYPE_CONNECT, ObjectEnd),
      Message(1, 0, 3, 18, CommandBody(RTMP_COMMAND_TYPE_CONNECT, ObjectEnd)),
      BasicHeader(1, 0, 3) \o MessageHeader(0, 200, RTMP_AMF0_COMMAND_MESSAGE_ID)
          \o Chunks(CommandBody(RTMP_COMMAND_TYPE_CONNECT, PApp \o PApp), BasicHeader(1, 0, 3)),
      BasicHeader(1, 0, 3) \o MessageHeader(0, 200, RTMP_AMF0_COMMAND_MESSAGE_ID)
          \o Chunks(CommandBody(RTMP_COMMAND_TYPE_CONNECT, PApp \o PApp), BasicHeader(1, 3, 4)),
      SubSeq(MsgBoth, 1, 100),
      SubSeq(MsgBoth, 1, 5),
      <<1>>,
      <<65, 0>>,
      <<0>>,
      MsgBoth \o <<255, 3>>,
      Connect(2, 1, 70, RTMP_COMMAND_TYPE_CONNECT, PFlag \o ObjectEnd),
      Connect(2, 1, 70, RTMP_COMMAND_TYPE_CONNECT, PSwf(SwfA) \o PSwf(SwfB) \o ObjectEnd),
      Connect(2, 1, 70, RTMP_COMMAND_TYPE_CONNECT,
              PPage(PageA) \o Prop(RTMP_PROPERTY_KEY_SWFURL, AmfNumber) \o ObjectEnd),
      Connect(2, 1, 70, RTMP_COMMAND_TYPE_CONNECT, PPage(PageB) \o ObjectEnd) }

Msgs == WellFormedBoth \cup NamedMsgs \cup OddMsgs

Payload(head, fb, fill, tail) == [head |-> head, fb |-> fb, fill |-> fill, tail |-> tail]

\* Handshake payloads: a version byte (right or wrong), runs of arbitrary
\* bytes around the size of a block, and the two together
HandshakeLen == 1 + RTMP_HANDSHAKE1_SIZE + RTMP_HANDSHAKE2_SIZE

HandshakePayloads ==
    { Payload(<<RTMP_VER_3>>, 0, f, <<>>) :
          f \in {0, RTMP_HANDSHAKE1_SIZE, RTMP_HANDSHAKE1_SIZE + RTMP_HANDSHAKE2_SIZE} }
    \cup { Payload(<<>>, 0, f, <<>>) :
          f \in {1, RTMP_HANDSHAKE1_SIZE - 1, RTMP_HANDSHAKE1_SIZE,
                 RTMP_HANDSHAKE1_SIZE + 1} }
    \cup { Payload(<<4>>, 0, 0, <<>>), Payload(<<>>, 7, RTMP_HANDSHAKE1_SIZE, <<>>) }

\* Payloads that carry a message after the last `fill` bytes of the handshake
MessagePayloads ==
    { Payload(<<>>, 0, 0, m) : m \in Msgs }
    \cup { Payload(<<>>, 0, RTMP_HANDSHAKE2_SIZE, m) : m \in WellFormedBoth \cup {<<1>>} }
    \cup { Payload(<<RTMP_VER_3>>, 0, RTMP_HANDSHAKE1_SIZE + RTMP_HANDSHAKE2_SIZE, MsgBoth) }

EmptyPayload == Payload(<<>>, 0, 0, <<>>)

ClientPayloads == HandshakePayloads \cup MessagePayloads \cup {EmptyPayload}

ServerPayloads == HandshakePayloads \cup {EmptyPayload}

\* ------------------------------------------------------------- the flow
\* Bounds of the model: the host stops after MaxPackets packets of the flow.
MaxPackets == 9
\* mod_config->rtmp_max_packets, a configuration value
RtmpMaxPackets == 8
\* ... and delivers at most MaxLate packets after a call has returned
\* SERVICE_NOMATCH or SERVICE_SUCCESS
MaxLate == 1

VARIABLES
    client_state, server_state,             \* ServiceRTMPData
    client_bytes_left, server_bytes_left,
    swfUrl, pageUrl,
    hsession,                               \* asd->hsession: [present, url, referer]
    session_packet_count,                   \* asd->session_packet_count
    referred_appId_disabled,                \* mod_config->referred_appId_disabled
    outcome,                                \* what the last call returned
    dir,                                    \* direction of the last call
    cgot, sgot,                             \* bytes the current block has taken
    freed,                                  \* strings the last call released or handed over
    cpos,                                   \* bytes the client has sent, up to HandshakeLen
    verdict,                                \* the first nomatch / success returned, if any
    late,                                   \* calls made after that verdict
    e2e,                                    \* position in the end-to-end scenario
    props                                   \* the command object under test, if any

vars == <<client_state, server_state, client_bytes_left, server_bytes_left,
          swfUrl, pageUrl, hsession, session_packet_count,
          referred_appId_disabled, outcome, dir, cgot, sgot, freed, cpos, verdict, late, e2e,
          props>>

\* The flow data as rtmp_validate sees it
FlowData ==
    [client_state |-> client_state, server_state |-> server_state,
     client_bytes_left |-> client_bytes_left, server_bytes_left |-> server_bytes_left,
     swfUrl |-> swfUrl, pageUrl |-> pageUrl]

Env(count) ==
    [count |-> count, max |-> RtmpMaxPackets, disabled |-> referred_appId_disabled,
     hs |-> hsession, cgot |-> cgot, sgot |-> sgot]

\* The end-to-end scenario: C0, C1, S0, S1, S2, then C2 with the connect
\* command, ceiling not reached, url and referer empty, referer capture on.
\* e is the number of its calls made so far, -1 once the flow has left it;
\* C2 and the connect command come in one call (5 to 6) or in two (5 to 7
\* to 6).
E2ENext(e, d, p, count) ==
    LET run(n) == p.head = <<>> /\ p.fill = n /\ p.tail = <<>>
        ver == p.head = <<RTMP_VER_3>> /\ p.fill = 0 /\ p.tail = <<>>
        cl == d = APP_ID_FROM_INITIATOR
        free == /\ count < RtmpMaxPackets
                /\ ~referred_appId_disabled
                /\ hsession.url = <<>> /\ hsession.referer = <<>>
        step == \/ e = 0 /\ cl /\ ver
                \/ e = 1 /\ cl /\ run(RTMP_HANDSHAKE1_SIZE)
                \/ e = 2 /\ ~cl /\ ver
                \/ e = 3 /\ ~cl /\ run(RTMP_HANDSHAKE1_SIZE)
                \/ e = 4 /\ ~cl /\ run(RTMP_HANDSHAKE2_SIZE)
        last == \/ e = 5 /\ cl /\ p.head = <<>> /\ p.fill = RTMP_HANDSHAKE2_SIZE
                         /\ p.tail \in WellFormedBoth
                \/ e = 7 /\ cl /\ p.head = <<>> /\ p.fill = 0
                         /\ p.tail \in WellFormedBoth
    IN  IF ~free THEN -1
        ELSE IF last THEN 6
        ELSE IF e = 5 /\ cl /\ run(RTMP_HANDSHAKE2_SIZE) THEN 7
        ELSE IF e \in 0..4 /\ step THEN e + 1
        ELSE -1

\* What the session and the configuration may be when the flow starts: no
\* http session yet, or one another detector has filled in
Configs ==
    { [hs |-> [present |-> FALSE, url |-> <<>>, referer |-> <<>>], disabled |-> FALSE],
      [hs |-> [present |-> FALSE, url |-> <<>>, referer |-> <<>>], disabled |-> TRUE],
      [hs |-> [present |-> TRUE, url |-> OtherUrl, referer |-> OtherUrl],
       disabled |-> FALSE] }

\* snort_calloc: a new flow's data is all zero; the session has seen no packet
Init ==
    /\ client_state = RTMP_STATE_INIT
    /\ server_state = RTMP_STATE_INIT
    /\ client_bytes_left = 0
    /\ server_bytes_left = 0
    /\ swfUrl = <<>>
    /\ pageUrl = <<>>
    /\ \E c \in Configs : hsession = c.hs /\ referred_appId_disabled = c.disabled
    /\ session_packet_count = 0
    /\ outcome = "none"
    /\ dir = "none"
    /\ cgot = 0
    /\ sgot = 0
    /\ freed = {}
    /\ cpos = 0
    /\ verdict = "none"
    /\ late = 0
    /\ e2e = 0
    /\ props = <<>>

\* The host counts the packet, then calls rtmp_validate on it.  A call that
\* read past its payload may end the process instead of returning.
Deliver(d, p) ==
    /\ outcome # "crash"
    /\ session_packet_count < MaxPackets
    /\ verdict # "none" => late < MaxLate
    /\ LET count == session_packet_count + 1 IN
       \E r \in {rtmp_validate(FlowData, d, p, Env(count))} :
           /\ session_packet_count' = count
           /\ client_state' = r.ss.client_state
           /\ server_state' = r.ss.server_state
           /\ client_bytes_left' = r.ss.client_bytes_left
           /\ server_bytes_left' = r.ss.server_bytes_left
           /\ swfUrl' = r.ss.swfUrl
           /\ pageUrl' = r.ss.pageUrl
           /\ hsession' = r.hs
           /\ outcome' \in (IF r.acc.oob THEN {r.outcome, "crash"} ELSE {r.outcome})
           /\ dir' = d
           /\ cgot' = r.acc.cgot
           /\ sgot' = r.acc.sgot
           /\ freed' = r.freed
           /\ cpos' = IF d = APP_ID_FROM_INITIATOR
                      THEN Min(cpos + Size(p), HandshakeLen) ELSE cpos
           /\ verdict' = IF verdict = "none" /\ r.outcome # SERVICE_INPROCESS
                         THEN r.outcome ELSE verdict
           /\ late' = IF verdict # "none" THEN late + 1 ELSE late
           /\ e2e' = E2ENext(e2e, d, p, count)
           /\ UNCHANGED <<referred_appId_disabled, props>>

\* The client sends its messages after the handshake: a payload with a
\* message starts where the handshake bytes still owed are exactly its run.
ClientPacket ==
    \E p \in ClientPayloads :
        /\ p.tail # <<>> => cpos + Len(p.head) + p.fill = HandshakeLen
        /\ Deliver(APP_ID_FROM_INITIATOR, p)

ServerPacket == \E p \in ServerPayloads : Deliver(APP_ID_FROM_RESPONDER, p)

Next == ClientPacket \/ ServerPacket

Spec == Init /\ [][Next]_vars

\* ------------------------------------------------- the command object
\* A second specification, for the extraction alone: the flow has reached
\* the point where the client's message is due (C0 and C1 in one packet,
\* S0 and S1 in one, C2 in one; the server may have gone on to send S2) and
\* is given a connect command whose object holds the properties `props`.
MaxProps == 3

\* The properties: the two keys the detector looks for, with a string or
\* with a value of another type, and a key it does not look for
PropKinds ==
    { [key |-> "swfUrl", type |-> "string", val |-> SwfA],
      [key |-> "swfUrl", type |-> "string", val |-> SwfB],
      [key |-> "swfUrl", type |-> "number", val |-> <<>>],
      [key |-> "pageUrl", type |-> "string", val |-> PageA],
      [key |-> "pageUrl", type |-> "string", val |-> PageB],
      [key |-> "pageUrl", type |-> "boolean", val |-> <<>>],
      [key |-> "app", type |-> "string", val |-> LongStr] }

PropSeqs == UNION { [1..n -> PropKinds] : n \in 0..MaxProps }

EncodeProp(k) ==
    Prop(IF k.key = "swfUrl" THEN RTMP_PROPERTY_KEY_SWFURL
         ELSE IF k.key = "pageUrl" THEN RTMP_PROPERTY_KEY_PAGEURL ELSE KeyApp,
         IF k.type = "string" THEN AmfString(k.val)
         ELSE IF k.type = "number" THEN AmfNumber ELSE AmfBoolean)

RECURSIVE EncodeProps(_)
EncodeProps(ks) ==
    IF ks = <<>> THEN <<>> ELSE EncodeProp(Head(ks)) \o EncodeProps(Tail(ks))

ObjectMsg(ks) ==
    Connect(1, 0, 3, RTMP_COMMAND_TYPE_CONNECT, EncodeProps(ks) \o ObjectEnd)

InitParse ==
    /\ client_state = RTMP_STATE_SENT_HANDSHAKE2
    /\ server_state \in {RTMP_STATE_SENT_HANDSHAKE1, RTMP_STATE_DONE}
    /\ client_bytes_left = RTMP_HANDSHAKE2_SIZE
    /\ server_bytes_left = RTMP_HANDSHAKE2_SIZE
    /\ swfUrl = <<>>
    /\ pageUrl = <<>>
    /\ hsession = [present |-> FALSE, url |-> <<>>, referer |-> <<>>]
    /\ referred_appId_disabled = FALSE
    /\ session_packet_count = IF server_state = RTMP_STATE_DONE THEN 4 ELSE 3
    /\ outcome = SERVICE_INPROCESS
    /\ dir = IF server_state = RTMP_STATE_DONE
             THEN APP_ID_FROM_RESPONDER ELSE APP_ID_FROM_INITIATOR
    /\ cgot = RTMP_HANDSHAKE2_SIZE
    /\ sgot = RTMP_HANDSHAKE1_SIZE
    /\ freed = {}
    /\ cpos = HandshakeLen
    /\ verdict = "none"
    /\ late = 0
    /\ e2e = -1
    /\ props \in PropSeqs

\* The client's packet with the command
ParseConnect ==
    /\ client_state = RTMP_STATE_SENT_HANDSHAKE2
    /\ verdict = "none"
    /\ Deliver(APP_ID_FROM_INITIATOR, Payload(<<>>, 0, 0, ObjectMsg(props)))

NextParse == ParseConnect

SpecParse == InitParse /\ [][NextParse]_vars

\* ------------------------------------------------- the end of the object
\* A third specification, for the end of the property loop: the same flow,
\* given a connect command whose object holds the properties props.ks and
\* then ends as props.end says: with the end marker, with nothing (the body
\* ends after the last property), with a zero-length key and another tag,
\* or with a zero-length key and no tag.
Endings == {"marker", "none", "bad", "cut"}

EncodeEnd(e) ==
    IF e = "marker" THEN ObjectEnd
    ELSE IF e = "none" THEN <<>>
    ELSE IF e = "bad" THEN <<0, 0, AMF0_TYPE_OBJECT>>
    ELSE <<0, 0>>

ObjectMsgEnding(o) ==
    Connect(1, 0, 3, RTMP_COMMAND_TYPE_CONNECT, EncodeProps(o.ks) \o EncodeEnd(o.end))

InitObject ==
    /\ client_state = RTMP_STATE_SENT_HANDSHAKE2
    /\ server_state \in {RTMP_STATE_SENT_HANDSHAKE1, RTMP_STATE_DONE}
    /\ client_bytes_left = RTMP_HANDSHAKE2_SIZE
    /\ server_bytes_left = RTMP_HANDSHAKE2_SIZE
    /\ swfUrl = <<>>
    /\ pageUrl = <<>>
    /\ hsession = [present |-> FALSE, url |-> <<>>, referer |-> <<>>]
    /\ referred_appId_disabled = FALSE
    /\ session_packet_count = IF server_state = RTMP_STATE_DONE THEN 4 ELSE 3
    /\ outcome = SERVICE_INPROCESS
    /\ dir = IF server_state = RTMP_STATE_DONE
             THEN APP_ID_FROM_RESPONDER ELSE APP_ID_FROM_INITIATOR
    /\ cgot = RTMP_HANDSHAKE2_SIZE
    /\ sgot = RTMP_HANDSHAKE1_SIZE
    /\ freed = {}
    /\ cpos = HandshakeLen
    /\ verdict = "none"
    /\ late = 0
    /\ e2e = -1
    /\ props \in [ks : PropSeqs, end : Endings]

\* The client's packet with the command
ParseObject ==
    /\ client_state = RTMP_STATE_SENT_HANDSHAKE2
    /\ verdict = "none"
    /\ Deliver(APP_ID_FROM_INITIATOR, Payload(<<>>, 0, 0, ObjectMsgEnding(props)))

NextObject == ParseObject

SpecObject == InitObject /\ [][NextObject]_vars

\* ------------------------------------------------------ the reassembly
\* A fourth specification, for unchunk_rtmp_message_body alone.  The input
\* is a message body of props.len bytes, cut into chunks of 128 bytes on
\* chunk stream props.id; the header before chunk props.at + 1 is of kind
\* props.kind, the others are as RTMP wants them; props.drop bytes are
\* missing from the end of the source, and props.more follow a source that
\* misses none.
MaxChunks == 3

BodyLens ==
    {0, 1} \cup { k * RTMP_CHUNK_SIZE + e : k \in 1..MaxChunks, e \in {-1, 0, 1} }

\* Byte i of the body: no two bytes 128 apart are equal
BodyOf(len) == [i \in 1..len |-> (i * 7) % 251]

\* The chunk stream ids, one for each form of the basic header
FormOf(id) == IF id < 64 THEN 1 ELSE IF id < 320 THEN 2 ELSE 3

StreamIds == {3, 70, 400}

HeaderKinds == {"good", "format", "id", "form"}

\* The header of kind k for stream id: as it should be, with format 0, with
\* another stream id, or with the same id in the 3-byte form
ContinuationHeader(k, id) ==
    IF k = "format" THEN BasicHeader(FormOf(id), 0, id)
    ELSE IF k = "id" THEN BasicHeader(FormOf(id), 3, id + 1)
    ELSE IF k = "form" /\ id >= 64 THEN BasicHeader(3, 3, id)
    ELSE BasicHeader(FormOf(id), 3, id)

RECURSIVE ChunkedSource(_, _, _, _, _)
ChunkedSource(body, id, k, at, i) ==
    IF Len(body) <= RTMP_CHUNK_SIZE THEN body
    ELSE SubSeq(body, 1, RTMP_CHUNK_SIZE)
         \o ContinuationHeader(IF i = at THEN k ELSE "good", id)
         \o ChunkedSource(SubSeq(body, RTMP_CHUNK_SIZE + 1, Len(body)), id, k, at, i + 1)

After(in) == IF in.drop = 0 THEN in.more ELSE <<>>

SourceOf(in) ==
    LET whole == ChunkedSource(BodyOf(in.len), in.id, in.kind, in.at, 1)
    IN  SubSeq(whole, 1, Len(whole) - Min(in.drop, Len(whole))) \o After(in)

UnchunkInputs ==
    [len : BodyLens, id : StreamIds, kind : HeaderKinds, at : 1..(MaxChunks - 1),
     drop : {0, 1, RTMP_CHUNK_SIZE + 2}, more : {<<>>, <<1>>}, done : {FALSE}, crash : {FALSE},
     out : {UnchunkFail(FALSE)}]

InitUnchunk ==
    /\ client_state = RTMP_STATE_INIT
    /\ server_state = RTMP_STATE_INIT
    /\ client_bytes_left = 0
    /\ server_bytes_left = 0
    /\ swfUrl = <<>>
    /\ pageUrl = <<>>
    /\ hsession = [present |-> FALSE, url |-> <<>>, referer |-> <<>>]
    /\ referred_appId_disabled = FALSE
    /\ session_packet_count = 0
    /\ outcome = "none"
    /\ dir = "none"
    /\ cgot = 0
    /\ sgot = 0
    /\ freed = {}
    /\ cpos = 0
    /\ verdict = "none"
    /\ late = 0
    /\ e2e = 0
    /\ props \in UnchunkInputs

\* lines 359-361 of parse_rtmp_message: the call of the reassembly on the
\* bytes after the message header.  A read past the bytes of the source
\* (line 163) either goes unnoticed or ends the process.
Unchunk ==
    /\ ~props.done
    /\ \E src \in {SourceOf(props)} :
         \E r \in {unchunk_rtmp_message_body(Payload(<<>>, 0, 0, src), 0, Len(src),
                                             props.id, props.len, <<>>)} :
           \E c \in {FALSE} \cup (IF r.oob THEN {TRUE} ELSE {}) :
               props' = [props EXCEPT !.done = TRUE, !.crash = c, !.out = r]
    /\ UNCHANGED <<client_state, server_state, client_bytes_left, server_bytes_left,
                   swfUrl, pageUrl, hsession, session_packet_count,
                   referred_appId_disabled, outcome, dir, cgot, sgot, freed, cpos,
                   verdict, late, e2e>>

NextUnchunk == Unchunk

SpecUnchunk == InitUnchunk /\ [][NextUnchunk]_vars

\* ============================================================== claims
\* What a call of rtmp_validate with payload p in direction d would return
\* in the current state (the host has counted the packet).
Call(d, p) == rtmp_validate(FlowData, d, p, Env(session_packet_count + 1))

\* C1: a call returns the success outcome only if, at the end of that call,
\* client_state is Done and server_state is Done.
C1_SuccessOnlyWhenBothDone ==
    outcome = SERVICE_SUCCESS =>
        client_state = RTMP_STATE_DONE /\ server_state = RTMP_STATE_DONE

\* a first success, reached by a server call that completes S2 after the client
C1_Witness ==
    /\ outcome = SERVICE_SUCCESS
    /\ dir = APP_ID_FROM_RESPONDER
    /\ late = 0
    /\ client_state = RTMP_STATE_DONE /\ server_state = RTMP_STATE_DONE

\* C2: the cross-side ordering invariant holds in every reachable state:
\* client in {SendingHandshake2, SentHandshake2, Done} implies server >=
\* SentHandshake1; server >= SentHandshake0 implies client >= SentHandshake0;
\* server in {SendingHandshake2, SentHandshake2, Done} implies client >=
\* SentHandshake1.
C2_CrossSideOrdering ==
    /\ client_state >= RTMP_STATE_SENDING_HANDSHAKE2
           => server_state >= RTMP_STATE_SENT_HANDSHAKE1
    /\ server_state >= RTMP_STATE_SENT_HANDSHAKE0
           => client_state >= RTMP_STATE_SENT_HANDSHAKE0
    /\ server_state >= RTMP_STATE_SENDING_HANDSHAKE2
           => client_state >= RTMP_STATE_SENT_HANDSHAKE1

\* the tightest case: the client is in C2 while the server has only just sent S1
C2_Witness ==
    /\ client_state = RTMP_STATE_SENDING_HANDSHAKE2
    /\ server_state = RTMP_STATE_SENT_HANDSHAKE1

\* C6: whenever client_state is Init and a client-direction call delivers a
\* first byte other than 3, the call returns failure and client_state stays
\* Init, whatever the rest of the state and the packet count are.
C6_BadVersionFails ==
    client_state = RTMP_STATE_INIT =>
        \A p \in ClientPayloads :
            (Size(p) > 0 /\ Byte(p, 0) # RTMP_VER_3) =>
                \A r \in {Call(APP_ID_FROM_INITIATOR, p)} :
                    /\ r.outcome = SERVICE_NOMATCH
                    /\ r.ss.client_state = RTMP_STATE_INIT

\* such a call has been made, on a flow that had already seen other packets
C6_Witness ==
    /\ outcome = SERVICE_NOMATCH
    /\ dir = APP_ID_FROM_INITIATOR
    /\ client_state = RTMP_STATE_INIT
    /\ cpos > 0
    /\ session_packet_count > 1
    /\ late = 0

\* C10: at the return of every call whose outcome is failure or success,
\* swf_url and page_url are both empty.
C10_StringsReleased ==
    outcome \in {SERVICE_NOMATCH, SERVICE_SUCCESS} => swfUrl = <<>> /\ pageUrl = <<>>

\* a failing call that held both strings when it reached the fail label
C10_Witness ==
    /\ outcome = SERVICE_NOMATCH
    /\ freed = {"swfUrl", "pageUrl"}

\* What a side's block still wants: a block that is starting wants all of
\* it, a block under way wants the 1536 bytes less those it has taken.
BlockWants(state, got) ==
    IF state \in {RTMP_STATE_SENT_HANDSHAKE0, RTMP_STATE_SENT_HANDSHAKE1}
    THEN RTMP_HANDSHAKE1_SIZE ELSE RTMP_HANDSHAKE1_SIZE - got

\* The state that follows the block a side in `state` is sending
AfterBlock(state) ==
    IF state \in {RTMP_STATE_SENT_HANDSHAKE0, RTMP_STATE_SENDING_HANDSHAKE1}
    THEN RTMP_STATE_SENT_HANDSHAKE1 ELSE RTMP_STATE_SENT_HANDSHAKE2

DuringBlock(state) ==
    IF state \in {RTMP_STATE_SENT_HANDSHAKE0, RTMP_STATE_SENDING_HANDSHAKE1}
    THEN RTMP_STATE_SENDING_HANDSHAKE1 ELSE RTMP_STATE_SENDING_HANDSHAKE2

\* A side in `state` accepts block bytes: it is in a block, or may start one
InBlock(state, may2) ==
    \/ state \in {RTMP_STATE_SENT_HANDSHAKE0, RTMP_STATE_SENDING_HANDSHAKE1,
                  RTMP_STATE_SENDING_HANDSHAKE2}
    \/ state = RTMP_STATE_SENT_HANDSHAKE1 /\ may2

\* C5: the 1536-byte budget of a block is satisfied exactly, for every split
\* across calls.  A side in SendingHandshakeN has taken between 1 and 1535
\* bytes of the block and bytes_left is 1536 less that count; a call that
\* delivers n bytes to a side whose block still wants w bytes keeps the side
\* in SendingHandshakeN with bytes_left = w - n when n < w, and completes the
\* block with exactly 1536 bytes taken when n >= w, the n - w bytes beyond
\* the 1536th being handed to the state that follows the block.
C5_BudgetExact ==
    /\ client_state \in {RTMP_STATE_SENDING_HANDSHAKE1, RTMP_STATE_SENDING_HANDSHAKE2}
           => /\ cgot \in 1..(RTMP_HANDSHAKE1_SIZE - 1)
              /\ client_bytes_left = RTMP_HANDSHAKE1_SIZE - cgot
    /\ server_state \in {RTMP_STATE_SENDING_HANDSHAKE1, RTMP_STATE_SENDING_HANDSHAKE2}
           => /\ sgot \in 1..(RTMP_HANDSHAKE1_SIZE - 1)
              /\ server_bytes_left = RTMP_HANDSHAKE1_SIZE - sgot
    /\ InBlock(client_state, ClientMayStartC2(FlowData)) =>
           \A p \in ClientPayloads : Size(p) > 0 =>
               \A r \in {Call(APP_ID_FROM_INITIATOR, p)} :
               \A w \in {BlockWants(client_state, cgot)} :
                   IF Size(p) < w
                   THEN /\ r.ss.client_state = DuringBlock(client_state)
                        /\ r.ss.client_bytes_left = w - Size(p)
                        /\ r.acc.cgot = RTMP_HANDSHAKE1_SIZE - w + Size(p)
                        /\ Len(r.acc.trail) = 1
                        /\ r.outcome # SERVICE_SUCCESS
                   ELSE IF Size(p) = w
                   THEN /\ r.ss.client_state = AfterBlock(client_state)
                        /\ r.acc.cgot = RTMP_HANDSHAKE1_SIZE
                        /\ Len(r.acc.trail) = 1
                   ELSE /\ Len(r.acc.trail) >= 2
                        /\ r.acc.trail[2] = [state |-> AfterBlock(client_state),
                                             size |-> Size(p) - w]
    /\ InBlock(server_state, ServerMayStartS2(FlowData)) =>
           \A p \in ServerPayloads : Size(p) > 0 =>
               \A r \in {Call(APP_ID_FROM_RESPONDER, p)} :
               \A w \in {BlockWants(server_state, sgot)} :
                   IF Size(p) < w
                   THEN /\ r.ss.server_state = DuringBlock(server_state)
                        /\ r.ss.server_bytes_left = w - Size(p)
                        /\ r.acc.sgot = RTMP_HANDSHAKE1_SIZE - w + Size(p)
                        /\ Len(r.acc.trail) = 1
                        /\ r.outcome # SERVICE_SUCCESS
                   ELSE IF AfterBlock(server_state) = RTMP_STATE_SENT_HANDSHAKE2
                   THEN \* S2 complete: the server is Done, the rest is consumed there
                        /\ r.ss.server_state = RTMP_STATE_DONE
                        /\ r.acc.sgot = RTMP_HANDSHAKE1_SIZE
                        /\ Len(r.acc.trail) = 1
                   ELSE IF Size(p) = w
                   THEN /\ r.ss.server_state = RTMP_STATE_SENT_HANDSHAKE1
                        /\ r.acc.sgot = RTMP_HANDSHAKE1_SIZE
                        /\ Len(r.acc.trail) = 1
                   ELSE /\ Len(r.acc.trail) >= 2
                        /\ r.acc.trail[2] = [state |-> RTMP_STATE_SENT_HANDSHAKE1,
                                             size |-> Size(p) - w]

\* 1535 bytes of C1, then the one byte that completes it
C5_Witness ==
    /\ client_state = RTMP_STATE_SENT_HANDSHAKE1
    /\ client_bytes_left = 1
    /\ cgot = RTMP_HANDSHAKE1_SIZE
    /\ outcome = SERVICE_INPROCESS

\* The call r took the switch in `state` with bytes in hand
Visits(r, state) == \E i \in 1..Len(r.acc.trail) : r.acc.trail[i].state = state

\* The call r left the loop at the switch in `state`: it went no further
EndsAt(r, state) ==
    Len(r.acc.trail) > 0 /\ r.acc.trail[Len(r.acc.trail)].state = state

\* C4 as stated: a call that delivers a byte to (a) the client in
\* SentHandshake1 while server_state < SentHandshake1, (b) the server in
\* Init while client_state < SentHandshake0, (c) the server in SentHandshake1
\* while client_state < SentHandshake1, returns failure without crashing,
\* and neither side's handshake state advances in that call.
C4_Original ==
    /\ server_state < RTMP_STATE_SENT_HANDSHAKE1 =>
           \A p \in ClientPayloads :
               \A r \in {Call(APP_ID_FROM_INITIATOR, p)} :
                   Visits(r, RTMP_STATE_SENT_HANDSHAKE1) =>
                       /\ r.outcome = SERVICE_NOMATCH /\ ~r.acc.oob
                       /\ r.ss.client_state = client_state
                       /\ r.ss.server_state = server_state
    /\ client_state < RTMP_STATE_SENT_HANDSHAKE1 =>
           \A p \in ServerPayloads :
               \A r \in {Call(APP_ID_FROM_RESPONDER, p)} :
                   (\/ Visits(r, RTMP_STATE_INIT)
                           /\ client_state < RTMP_STATE_SENT_HANDSHAKE0
                    \/ Visits(r, RTMP_STATE_SENT_HANDSHAKE1)) =>
                       /\ r.outcome = SERVICE_NOMATCH /\ ~r.acc.oob
                       /\ r.ss.client_state = client_state
                       /\ r.ss.server_state = server_state

\* C4, amended: such a call returns failure without crashing and stops at
\* the check: the side ends the call in the state whose precondition is not
\* met and the other side's state is unchanged.  The side's own state is
\* unchanged when the call found it in that state; a call that reaches the
\* state after consuming earlier handshake bytes has advanced up to it.
C4_OrderingFails ==
    /\ server_state < RTMP_STATE_SENT_HANDSHAKE1 =>
           \A p \in ClientPayloads :
               \A r \in {Call(APP_ID_FROM_INITIATOR, p)} :
                   Visits(r, RTMP_STATE_SENT_HANDSHAKE1) =>
                       /\ r.outcome = SERVICE_NOMATCH /\ ~r.acc.oob
                       /\ EndsAt(r, RTMP_STATE_SENT_HANDSHAKE1)
                       /\ r.ss.client_state = RTMP_STATE_SENT_HANDSHAKE1
                       /\ r.ss.server_state = server_state
    /\ client_state < RTMP_STATE_SENT_HANDSHAKE0 =>
           \A p \in ServerPayloads :
               \A r \in {Call(APP_ID_FROM_RESPONDER, p)} :
                   Visits(r, RTMP_STATE_INIT) =>
                       /\ r.outcome = SERVICE_NOMATCH /\ ~r.acc.oob
                       /\ EndsAt(r, RTMP_STATE_INIT)
                       /\ r.ss.server_state = RTMP_STATE_INIT
                       /\ r.ss.client_state = client_state
    /\ client_state < RTMP_STATE_SENT_HANDSHAKE1 =>
           \A p \in ServerPayloads :
               \A r \in {Call(APP_ID_FROM_RESPONDER, p)} :
                   Visits(r, RTMP_STATE_SENT_HANDSHAKE1) =>
                       /\ r.outcome = SERVICE_NOMATCH /\ ~r.acc.oob
                       /\ EndsAt(r, RTMP_STATE_SENT_HANDSHAKE1)
                       /\ r.ss.server_state = RTMP_STATE_SENT_HANDSHAKE1
                       /\ r.ss.client_state = client_state

\* a server call that took S1 and then met the check while the client was
\* still sending C1
C4_Witness ==
    /\ outcome = SERVICE_NOMATCH
    /\ dir = APP_ID_FROM_RESPONDER
    /\ late = 0
    /\ server_state = RTMP_STATE_SENT_HANDSHAKE1
    /\ client_state = RTMP_STATE_SENDING_HANDSHAKE1

\* C7: the end-to-end scenario.  The client delivers [3] and then 1536 bytes,
\* the server [3], 1536 bytes and 1536 bytes, the client 1536 bytes followed
\* by a well-formed chunked connect command with swfUrl and pageUrl; the
\* ceiling is not reached, url and referer are empty and referer capture is
\* on.  No call before the last returns failure or success; the last
\* returns success with both sides Done and the session holds both strings.
C7_EndToEnd ==
    /\ e2e \in {1, 2, 3, 4, 5, 7} => outcome = SERVICE_INPROCESS
    /\ e2e = 6 =>
           /\ outcome = SERVICE_SUCCESS
           /\ client_state = RTMP_STATE_DONE /\ server_state = RTMP_STATE_DONE
           /\ hsession.present
           /\ <<hsession.url, hsession.referer>> \in
                  { <<SwfA \o <<0>>, PageA \o <<0>>>>, <<SwfB \o <<0>>, PageB \o <<0>>>> }
           /\ freed = {"swfUrl", "pageUrl"}

\* the scenario has run to its last call, with the connect command that was
\* sent in two chunks
C7_Witness ==
    /\ e2e = 6
    /\ outcome = SERVICE_SUCCESS
    /\ hsession.url = SwfA \o <<0>>
    /\ hsession.referer = PageA \o <<0>>
    /\ session_packet_count = 7

\* C8: every command message delivered to the client in SentHandshake2 whose
\* first AMF0 string is not exactly the 7 bytes "connect" (another content
\* or another length, a proper prefix such as "con" or a longer string
\* included) makes the call return failure, however well-formed the rest is.
C8_NonConnectFails ==
    client_state = RTMP_STATE_SENT_HANDSHAKE2 =>
        \A m \in NamedMsgs :
            \A r \in {Call(APP_ID_FROM_INITIATOR, Payload(<<>>, 0, 0, m))} :
                r.outcome = SERVICE_NOMATCH

\* The first k bytes of payload p, and the bytes after them
Left(p, k) ==
    LET h == Len(p.head) IN
    IF k <= h THEN Payload(SubSeq(p.head, 1, k), p.fb, 0, <<>>)
    ELSE IF k <= h + p.fill THEN Payload(p.head, p.fb, k - h, <<>>)
    ELSE Payload(p.head, p.fb, p.fill, SubSeq(p.tail, 1, k - h - p.fill))

Right(p, k) ==
    LET h == Len(p.head) IN
    IF k <= h THEN Payload(SubSeq(p.head, k + 1, h), p.fb, p.fill, p.tail)
    ELSE IF k <= h + p.fill THEN Payload(<<>>, p.fb, p.fill - (k - h), p.tail)
    ELSE Payload(<<>>, p.fb, 0, SubSeq(p.tail, k - h - p.fill + 1, Len(p.tail)))

\* Where a delivery is split: around the version byte, around the ends of
\* the blocks, inside the headers and the chunks of a message, near its end
Cuts(p) ==
    LET h == Len(p.head)
        m == h + p.fill
    IN  { k \in { 1, 2, RTMP_HANDSHAKE1_SIZE - 1, RTMP_HANDSHAKE1_SIZE,
                  RTMP_HANDSHAKE1_SIZE + 1, RTMP_HANDSHAKE1_SIZE + 2,
                  m - 1, m, m + 1, m + 2, m + 12, m + 13, m + RTMP_CHUNK_SIZE + 14,
                  Size(p) - 3, Size(p) - 2, Size(p) - 1 } :
              0 < k /\ k < Size(p) }

\* The call after the call that returned r1, same direction, next packet
CallAfter(r1, d, p) ==
    rtmp_validate(r1.ss, d, p,
                  [count |-> session_packet_count + 2, max |-> RtmpMaxPackets,
                   disabled |-> referred_appId_disabled, hs |-> r1.hs,
                   cgot |-> r1.acc.cgot, sgot |-> r1.acc.sgot])

\* What a call may end as
Class(r) == IF r.acc.oob THEN {r.outcome, "crash"} ELSE {r.outcome}

\* The classification of a flow after the calls r1 and r2: the first verdict
SplitClass(r1, r2) ==
    IF r1.outcome # SERVICE_INPROCESS THEN Class(r1) ELSE Class(r2)

\* The flow data after the calls r1 and r2
SplitFlow(r1, r2) == IF r1.outcome # SERVICE_INPROCESS THEN r1.ss ELSE r2.ss

SplitSession(r1, r2) == IF r1.outcome # SERVICE_INPROCESS THEN r1.hs ELSE r2.hs

\* Two flow data agree: bytes_left counts only while a block is being sent
SameFlow(a, b) ==
    /\ a.client_state = b.client_state /\ a.server_state = b.server_state
    /\ a.swfUrl = b.swfUrl /\ a.pageUrl = b.pageUrl
    /\ a.client_state \in {RTMP_STATE_SENDING_HANDSHAKE1, RTMP_STATE_SENDING_HANDSHAKE2}
           => a.client_bytes_left = b.client_bytes_left
    /\ a.server_state \in {RTMP_STATE_SENDING_HANDSHAKE1, RTMP_STATE_SENDING_HANDSHAKE2}
           => a.server_bytes_left = b.server_bytes_left

\* The payloads of direction d the flow may be given now
MayDeliver(d) ==
    IF d = APP_ID_FROM_INITIATOR
    THEN { p \in ClientPayloads :
               p.tail # <<>> => cpos + Len(p.head) + p.fill = HandshakeLen }
    ELSE ServerPayloads

\* The flow is still being classified and two more calls stay under the ceiling
Splittable ==
    /\ verdict = "none" /\ outcome # "crash"
    /\ session_packet_count + 2 < RtmpMaxPackets

\* The whole delivery w parsed a message and the split at k falls inside
\* the bytes the extractor used
InsideMessage(w, k) ==
    /\ w.acc.parsed /\ w.ss.client_state = RTMP_STATE_DONE
    /\ w.acc.pstart < k /\ k < w.acc.cut

\* C3 as stated: for every delivery and every split of it into consecutive
\* non-empty calls in the same direction, the ceiling not reached, the final
\* classification is the one of the delivery in one call, splits inside the
\* C1/C2/S1/S2 blocks and inside the connect message included.
C3_Original ==
    Splittable =>
        \A d \in {APP_ID_FROM_INITIATOR, APP_ID_FROM_RESPONDER} :
        \A p \in MayDeliver(d) : \A k \in Cuts(p) :
            \A w \in {Call(d, p)} : \A r1 \in {Call(d, Left(p, k))} :
            \A r2 \in {CallAfter(r1, d, Right(p, k))} :
                SplitClass(r1, r2) = Class(w)

\* C3, amended: the classification, the flow data and the session are those
\* of the delivery in one call for every split that does not fall inside
\* the bytes of the connect message, splits inside the C1/C2/S1/S2 blocks
\* included; a split inside the message a single call would have accepted
\* fails the flow, since the extractor sees the bytes of one call only.
C3_ChunkingInvariance ==
    Splittable =>
        \A d \in {APP_ID_FROM_INITIATOR, APP_ID_FROM_RESPONDER} :
        \A p \in MayDeliver(d) : \A k \in Cuts(p) :
            \A w \in {Call(d, p)} : \A r1 \in {Call(d, Left(p, k))} :
            \A r2 \in {CallAfter(r1, d, Right(p, k))} :
                IF InsideMessage(w, k)
                THEN /\ SERVICE_NOMATCH \in SplitClass(r1, r2)
                     /\ SplitClass(r1, r2) \subseteq {SERVICE_NOMATCH, "crash"}
                     /\ Class(w) \subseteq {SERVICE_INPROCESS, SERVICE_SUCCESS}
                ELSE /\ SplitClass(r1, r2) = Class(w)
                     /\ SameFlow(SplitFlow(r1, r2), w.ss)
                     /\ SplitSession(r1, r2) = w.hs

\* C2 has come as 1535 bytes and then 1 byte, and the message is due
C3_Witness ==
    /\ Splittable
    /\ client_state = RTMP_STATE_SENT_HANDSHAKE2
    /\ client_bytes_left = 1
    /\ cgot = RTMP_HANDSHAKE2_SIZE
    /\ cpos = HandshakeLen

\* The first property of ks with the key, or none
HasKey(ks, key) == \E i \in 1..Len(ks) : ks[i].key = key

FirstOf(ks, key) ==
    ks[CHOOSE i \in 1..Len(ks) :
           ks[i].key = key /\ \A j \in 1..(i - 1) : ks[j].key # key]

\* The string the flow should hold for the key: the value of the first
\* property with that key and its terminator, or nothing
FirstValue(ks, key) ==
    IF HasKey(ks, key) THEN FirstOf(ks, key).val \o <<0>> ELSE <<>>

\* The first property of each key wanted, if any, has a string for value
FirstAreStrings(ks) ==
    \A key \in {"swfUrl", "pageUrl"} :
        HasKey(ks, key) => FirstOf(ks, key).type = "string"

\* C9: for every property sequence of a connect command object, swfUrl
\* holds the value of the first swfUrl key and pageUrl the value of the
\* first pageUrl key; a later key with the same name is skipped like a
\* property the detector does not look for, whatever its value, and never
\* replaces the string captured: the command is refused only if the first
\* swfUrl or the first pageUrl has a value that is not a string.
C9_FirstOccurrenceWins ==
    client_state # RTMP_STATE_SENT_HANDSHAKE2 =>
        IF ~FirstAreStrings(props)
        THEN outcome = SERVICE_NOMATCH
        ELSE IF server_state = RTMP_STATE_DONE
        THEN /\ outcome = SERVICE_SUCCESS
             /\ hsession.url = FirstValue(props, "swfUrl")
             /\ hsession.referer = FirstValue(props, "pageUrl")
        ELSE /\ outcome = SERVICE_INPROCESS
             /\ swfUrl = FirstValue(props, "swfUrl")
             /\ pageUrl = FirstValue(props, "pageUrl")

\* two swfUrl keys and then a pageUrl key: the first swfUrl is held
C9_Witness ==
    /\ client_state = RTMP_STATE_DONE
    /\ Len(props) = 3
    /\ props[1].key = "swfUrl" /\ props[2].key = "swfUrl" /\ props[3].key = "pageUrl"
    /\ props[1].val # props[2].val /\ props[2].type = "string"
    /\ swfUrl = props[1].val \o <<0>>
    /\ pageUrl = props[3].val \o <<0>>

\* The loop of direction d over a non-empty payload p in the current state:
\* the flow data as the call's labels find it, the strings still held
LoopRun(d, p) ==
    IF d = APP_ID_FROM_INITIATOR
    THEN ClientLoop(FlowData, p, 0, Size(p), NoRun(cgot, sgot))
    ELSE ServerLoop(FlowData, p, 0, Size(p), NoRun(cgot, sgot))

\* The host may still call the detector on this flow
MayCall ==
    /\ outcome # "crash"
    /\ session_packet_count < MaxPackets
    /\ verdict # "none" => late < MaxLate

\* C11: the session's url and referer are written only on success and never
\* overwritten.  On success url becomes swfUrl iff swfUrl was captured and
\* url was empty, referer becomes pageUrl iff pageUrl was captured, referer
\* was empty and referred_appId_disabled is false; in every other case,
\* every in-progress and failure outcome included, both are unchanged.
C11_SessionWrittenOnSuccessOnly ==
    MayCall =>
        \A d \in {APP_ID_FROM_INITIATOR, APP_ID_FROM_RESPONDER} :
        \A p \in MayDeliver(d) :
            \A r \in {Call(d, p)} :
                IF r.outcome # SERVICE_SUCCESS
                THEN r.hs.url = hsession.url /\ r.hs.referer = hsession.referer
                ELSE \A run \in {LoopRun(d, p)} :
                     /\ r.hs.url =
                            IF run.ss.swfUrl # <<>> /\ hsession.url = <<>>
                            THEN run.ss.swfUrl ELSE hsession.url
                     /\ r.hs.referer =
                            IF /\ run.ss.pageUrl # <<>> /\ hsession.referer = <<>>
                               /\ ~referred_appId_disabled
                            THEN run.ss.pageUrl ELSE hsession.referer

\* a success that found url and referer set by another detector and left
\* them, although both strings had been captured
C11_Witness ==
    /\ outcome = SERVICE_SUCCESS
    /\ freed = {"swfUrl", "pageUrl"}
    /\ hsession.url = OtherUrl /\ hsession.referer = OtherUrl

\* C12: a call with zero bytes changes neither side's state, bytes_left nor
\* the captured strings, and re-evaluates the packet-count ceiling: it
\* returns failure when the flow is still indeterminate and the session
\* packet count has reached rtmp_max_packets, and in-progress otherwise.
C12_ZeroBytesReevaluateCeiling ==
    MayCall =>
        \A d \in {APP_ID_FROM_INITIATOR, APP_ID_FROM_RESPONDER} :
            \A r \in {Call(d, EmptyPayload)} :
                /\ r.ss = FlowData
                /\ r.outcome =
                       IF /\ ~BothDone(FlowData)
                          /\ session_packet_count + 1 >= RtmpMaxPackets
                       THEN SERVICE_NOMATCH ELSE SERVICE_INPROCESS

\* C13: the ceiling bounds the indeterminate phase.  Every non-empty call
\* made when the session packet count is >= rtmp_max_packets returns failure
\* if at its end the two sides are not both Done and success if they are
\* (the both-Done test comes first): none returns in-progress.
C13_CeilingBoundsIndeterminate ==
    (MayCall /\ session_packet_count + 1 >= RtmpMaxPackets) =>
        \A d \in {APP_ID_FROM_INITIATOR, APP_ID_FROM_RESPONDER} :
        \A p \in MayDeliver(d) : Size(p) > 0 =>
            \A r \in {Call(d, p)} :
                r.outcome = IF BothDone(r.ss) THEN SERVICE_SUCCESS ELSE SERVICE_NOMATCH

\* a flow that was indeterminate up to the ceiling: the non-empty call at
\* the ceiling completes it, and one that does not is refused
C13_Witness ==
    /\ session_packet_count >= RtmpMaxPackets
    /\ late = 0
    /\ cpos > 0
    /\ \/ outcome = SERVICE_SUCCESS /\ dir = APP_ID_FROM_RESPONDER
       \/ outcome = SERVICE_NOMATCH /\ dir = APP_ID_FROM_INITIATOR
              /\ client_state = RTMP_STATE_SENDING_HANDSHAKE2

\* The call r on payload p found the side Done and did nothing but drop the
\* bytes: one pass of the switch, in Done, with all of them; no extraction
Discards(r, p) ==
    /\ r.acc.trail = <<[state |-> RTMP_STATE_DONE, size |-> Size(p)]>>
    /\ ~r.acc.parsed

\* C14 as stated: once a side is Done, every later call in that direction
\* discards all its bytes, leaves the side Done, never runs the connect
\* extractor again and never returns the failure outcome.
C14_Original ==
    MayCall =>
        /\ client_state = RTMP_STATE_DONE =>
               \A p \in MayDeliver(APP_ID_FROM_INITIATOR) : Size(p) > 0 =>
                   \A r \in {Call(APP_ID_FROM_INITIATOR, p)} :
                       /\ Discards(r, p)
                       /\ r.ss.client_state = RTMP_STATE_DONE
                       /\ r.outcome # SERVICE_NOMATCH
        /\ server_state = RTMP_STATE_DONE =>
               \A p \in MayDeliver(APP_ID_FROM_RESPONDER) : Size(p) > 0 =>
                   \A r \in {Call(APP_ID_FROM_RESPONDER, p)} :
                       /\ Discards(r, p)
                       /\ r.ss.server_state = RTMP_STATE_DONE
                       /\ r.outcome # SERVICE_NOMATCH

\* What a call that changes no state returns
Verdict(count) ==
    IF client_state = RTMP_STATE_DONE /\ server_state = RTMP_STATE_DONE
    THEN SERVICE_SUCCESS
    ELSE IF count >= RtmpMaxPackets THEN SERVICE_NOMATCH
    ELSE SERVICE_INPROCESS

\* C14, amended: once a side is Done, every later call in that direction
\* discards all its bytes, changes neither side's state, never runs the
\* connect extractor again and never fails on its bytes; it returns success
\* if the other side is Done too, and otherwise failure if the session
\* packet count has reached rtmp_max_packets and in-progress if not.
C14_DoneAbsorbs ==
    MayCall =>
        /\ client_state = RTMP_STATE_DONE =>
               \A p \in MayDeliver(APP_ID_FROM_INITIATOR) : Size(p) > 0 =>
                   \A r \in {Call(APP_ID_FROM_INITIATOR, p)} :
                       /\ Discards(r, p)
                       /\ r.ss.client_state = RTMP_STATE_DONE
                       /\ r.ss.server_state = server_state
                       /\ r.outcome = Verdict(session_packet_count + 1)
        /\ server_state = RTMP_STATE_DONE =>
               \A p \in MayDeliver(APP_ID_FROM_RESPONDER) : Size(p) > 0 =>
                   \A r \in {Call(APP_ID_FROM_RESPONDER, p)} :
                       /\ Discards(r, p)
                       /\ r.ss.server_state = RTMP_STATE_DONE
                       /\ r.ss.client_state = client_state
                       /\ r.outcome = Verdict(session_packet_count + 1)

\* the client was Done and holding both strings while the server was not,
\* and was given more bytes at the ceiling: they were dropped and the flow
\* was refused
C14_Witness ==
    /\ outcome = SERVICE_NOMATCH
    /\ dir = APP_ID_FROM_INITIATOR
    /\ late = 0
    /\ client_state = RTMP_STATE_DONE
    /\ server_state # RTMP_STATE_DONE
    /\ session_packet_count > RtmpMaxPackets
    /\ freed = {"swfUrl", "pageUrl"}

\* C15: a failure outcome is terminal for the flow.  After a call on a flow
\* has returned failure, no later call on that flow's state returns success
\* or advances either side's handshake state.
C15_FailureIsTerminal ==
    [][verdict = SERVICE_NOMATCH =>
           /\ outcome' # SERVICE_SUCCESS
           /\ client_state' = client_state
           /\ server_state' = server_state]_vars

\* C16: the server goes from SentHandshake2 to Done unconditionally.  The
\* server call that delivers the last byte of S2 ends with the server Done,
\* also when that byte is the last of the call, so server_state is never
\* SentHandshake2 at the end of a call.  The client, given the last byte of
\* C2 and no more, rests in SentHandshake2; it becomes Done only in a call
\* that ran the connect extractor, and a call that finds it in
\* SentHandshake2 either makes it Done or fails.
C16_ServerDoneClientRests ==
    /\ server_state # RTMP_STATE_SENT_HANDSHAKE2
    /\ (MayCall /\ InBlock(server_state, ServerMayStartS2(FlowData))
               /\ AfterBlock(server_state) = RTMP_STATE_SENT_HANDSHAKE2) =>
           \A p \in ServerPayloads : Size(p) >= BlockWants(server_state, sgot) =>
               \A r \in {Call(APP_ID_FROM_RESPONDER, p)} :
                   /\ r.ss.server_state = RTMP_STATE_DONE
                   /\ r.outcome # SERVICE_NOMATCH \/ client_state # RTMP_STATE_DONE
    /\ (MayCall /\ InBlock(client_state, ClientMayStartC2(FlowData))
               /\ AfterBlock(client_state) = RTMP_STATE_SENT_HANDSHAKE2) =>
           \A p \in MayDeliver(APP_ID_FROM_INITIATOR) :
               Size(p) >= BlockWants(client_state, cgot) =>
               \A r \in {Call(APP_ID_FROM_INITIATOR, p)} :
                   IF Size(p) = BlockWants(client_state, cgot)
                   THEN /\ r.ss.client_state = RTMP_STATE_SENT_HANDSHAKE2
                        /\ ~r.acc.parsed
                        /\ r.outcome # SERVICE_SUCCESS
                   ELSE /\ r.acc.parsed
                        /\ r.ss.client_state \in {RTMP_STATE_SENT_HANDSHAKE2, RTMP_STATE_DONE}
                        /\ r.ss.client_state = RTMP_STATE_SENT_HANDSHAKE2
                               => r.outcome = SERVICE_NOMATCH
    /\ (MayCall /\ client_state = RTMP_STATE_SENT_HANDSHAKE2) =>
           \A p \in MayDeliver(APP_ID_FROM_INITIATOR) : Size(p) > 0 =>
               \A r \in {Call(APP_ID_FROM_INITIATOR, p)} :
                   /\ r.acc.parsed
                   /\ r.ss.client_state \in {RTMP_STATE_SENT_HANDSHAKE2, RTMP_STATE_DONE}
                   /\ r.ss.client_state = RTMP_STATE_SENT_HANDSHAKE2
                          => r.outcome = SERVICE_NOMATCH

\* S2 has ended with the last byte of a server call and the server is Done,
\* while the client, whose C2 is complete, rests in SentHandshake2
C16_Witness ==
    /\ server_state = RTMP_STATE_DONE
    /\ dir = APP_ID_FROM_RESPONDER
    /\ sgot = RTMP_HANDSHAKE2_SIZE
    /\ server_bytes_left = 1
    /\ client_state = RTMP_STATE_SENT_HANDSHAKE2
    /\ outcome = SERVICE_INPROCESS

\* C20: handshake progress is monotonic.  Over every sequence of calls on a
\* flow, calls that return failure included, client_state and server_state
\* never decrease in the order Init < SentHandshake0 < SendingHandshake1 <
\* SentHandshake1 < SendingHandshake2 < SentHandshake2 < Done.
C20_ProgressMonotonic ==
    [][client_state' >= client_state /\ server_state' >= server_state]_vars

\* a call has failed on a flow whose two sides were well into the handshake,
\* and has left them there
C20_Witness ==
    /\ outcome = SERVICE_NOMATCH
    /\ late = 0
    /\ client_state = RTMP_STATE_SENT_HANDSHAKE2
    /\ server_state = RTMP_STATE_SENDING_HANDSHAKE2

\* The command has been given to the client
Given == verdict # "none" \/ client_state = RTMP_STATE_DONE

\* C17 as stated: a body made of the "connect" string, the transaction
\* number, the object tag and zero or more complete well-formed properties,
\* ending at the declared length with no end marker, is accepted; a
\* zero-length key ends the loop successfully only when the tag 0x09
\* follows it and is a failure otherwise.
C17_Original ==
    (Given /\ FirstAreStrings(props.ks)) =>
        (outcome # SERVICE_NOMATCH <=> props.end \in {"marker", "none"})

\* C17, amended: such a body is accepted when it holds one or more
\* properties; with no property and no end marker it is refused, as the
\* loop body runs once before the test of the bytes left.  With the end
\* marker the object may be empty.  A zero-length key followed by another
\* tag, or by nothing, is a failure.  The strings are those of the first
\* swfUrl and pageUrl keys in each accepted case.
C17_ExhaustionEndsLoop ==
    (Given /\ FirstAreStrings(props.ks)) =>
        IF props.end = "marker" \/ (props.end = "none" /\ Len(props.ks) > 0)
        THEN /\ client_state = RTMP_STATE_DONE
             /\ outcome = IF server_state = RTMP_STATE_DONE
                          THEN SERVICE_SUCCESS ELSE SERVICE_INPROCESS
             /\ server_state # RTMP_STATE_DONE =>
                    /\ swfUrl = FirstValue(props.ks, "swfUrl")
                    /\ pageUrl = FirstValue(props.ks, "pageUrl")
        ELSE /\ outcome = SERVICE_NOMATCH
             /\ client_state = RTMP_STATE_SENT_HANDSHAKE2

\* a command whose object ends after its third property, without the
\* marker, has been accepted and its swfUrl is held
C17_Witness ==
    /\ client_state = RTMP_STATE_DONE
    /\ outcome = SERVICE_INPROCESS
    /\ props.end = "none"
    /\ Len(props.ks) = 3
    /\ props.ks[3].key = "swfUrl"
    /\ swfUrl = props.ks[3].val \o <<0>>

\* C18: the chunk basic header reader never reads a byte at an index >= the
\* number of bytes available: for each of its three forms it tests that the
\* prefix is there before it reads bytes 2 and 3, and fails without
\* consuming anything when it is not.
C18_NoReadPastTheBytes ==
    client_state = RTMP_STATE_SENT_HANDSHAKE2 =>
        \A m \in Msgs :
            \A bh \in {parse_rtmp_chunk_basic_header(Payload(<<>>, 0, 0, m), 0, Len(m))} :
                /\ ~bh.oob
                /\ ~Call(APP_ID_FROM_INITIATOR, Payload(<<>>, 0, 0, m)).acc.oob

\* The continuation headers a body of len bytes needs
Continuations(len) ==
    IF len = 0 THEN 0 ELSE (len + RTMP_CHUNK_SIZE - 1) \div RTMP_CHUNK_SIZE - 1

\* The bytes of the source the reassembly of input in should use
SourceNeeded(in) ==
    in.len + Continuations(in.len) * FormOf(in.id)
    + (IF in.kind = "form" /\ in.id >= 64 /\ in.at <= Continuations(in.len)
       THEN 3 - FormOf(in.id) ELSE 0)

\* The input has a header that RTMP forbids between two of its chunks
BadHeader(in) == in.kind \in {"format", "id"} /\ in.at <= Continuations(in.len)

C19_ReassemblyUnlessOverread ==
    (props.done /\ ~props.crash) =>
        IF BadHeader(props) \/ (props.drop > 0 /\ props.len > 0)
        THEN ~props.out.ok
        ELSE /\ props.out.ok /\ ~props.out.oob
             /\ props.out.body = BodyOf(props.len)
             /\ props.out.off = SourceNeeded(props)
             /\ props.out.size = Len(After(props))

\* A string kept by a call, or released by one that ended in failure or in
\* success
KeptOrReleased(before, after, result) ==
    \/ after = before
    \/ after = <<>> /\ result \in {SERVICE_NOMATCH, SERVICE_SUCCESS}

C22_StringsOnlyWhileWaiting ==
    (swfUrl # <<>> \/ pageUrl # <<>>) =>
        /\ client_state = RTMP_STATE_DONE
        /\ server_state # RTMP_STATE_DONE
        /\ outcome = SERVICE_INPROCESS

\* the client's connect command has been accepted before the server's S2:
\* both strings are held and the call returned in-progress
C22_Witness ==
    /\ dir = APP_ID_FROM_INITIATOR
    /\ swfUrl # <<>>
    /\ pageUrl # <<>>
    /\ client_state = RTMP_STATE_DONE
    /\ server_state = RTMP_STATE_SENT_HANDSHAKE1
    /\ outcome = SERVICE_INPROCESS

\* the connect command was refused after a string had been captured (the
\* fail label released it), and nothing is held
C22_RefusedAfterCapture ==
    /\ dir = APP_ID_FROM_INITIATOR
    /\ outcome = SERVICE_NOMATCH
    /\ client_state = RTMP_STATE_SENT_HANDSHAKE2
    /\ freed # {}
    /\ swfUrl = <<>>
    /\ pageUrl = <<>>
====
